---- MODULE Spec2Model ----
(***************************************************************************)
(* Report aggregation of the telecaller dashboard (src/data_processor.py). *)
(*                                                                         *)
(* The 'Reports' worksheet is a header row plus a sequence of rows; every  *)
(* row is a function from the header's column names to cell values.        *)
(* DataProcessor reads the worksheet into a DataFrame, normalises it       *)
(* (get_all_reports) and derives the dashboard views from it.              *)
(*                                                                         *)
(* Time.  An instant is an integer number of ticks, TicksPerDay ticks to   *)
(* a day.  Tick 0 of a day is 00:00:00, tick 1 is 00:00:01 (the marker the *)
(* report form writes, src/app.py:872) and the remaining ticks are later   *)
(* times of the day, so the order of instants is the order of datetimes.   *)
(* The clock starts late on day Today and runs to the end of the next day. *)
(*                                                                         *)
(* Rounded numbers.  round(x, 1) is kept as the integer number of tenths.  *)
(* Float quotients that pandas leaves as NaN or inf are tagged values.     *)
(***************************************************************************)
EXTENDS Integers, Sequences, FiniteSets, TLC

VARIABLES
    reports,    \* rows of the 'Reports' worksheet, oldest first
    header,     \* column names of the worksheet's header row
    now,        \* datetime.now(), in ticks
    result,     \* the call that returned last and what it returned
    use_google_sheets,  \* the service is connected to the spreadsheet
    local_reports,      \* the list in data/reports.json
    edit_logs,          \* the edit log
    users,              \* the user store
    session_state       \* st.session_state of every browser session

appVars == <<use_google_sheets, local_reports, edit_logs, users, session_state>>

vars == <<reports, header, now, result, use_google_sheets, local_reports,
          edit_logs, users, session_state>>

----------------------------------------------------------------------------
(* Bounds *)

MaxReports == 2
MaxLogs == MaxReports
MaxLocal == MaxReports
TicksPerDay == 3
Today == 40
FirstTick == Today * TicksPerDay + (TicksPerDay - 1)
LastTick == FirstTick + TicksPerDay

----------------------------------------------------------------------------
(* Program constants *)

WeekDays == 7
MonthDays == 30
WeeklySummaryDays_six == WeekDays - 1
WeeklySummaryDays == 7
ListingDays == 30

None == "None"
NaT == 0 - 1

\* cells of a numeric column that are not a count: text that does not parse
\* as a number ('abc', 'n/a'), and text that parses to a non-finite float
\* ('inf', '1e999')
NotANumber == 0 - 1
Infinite == 0 - 2

ReportHeaders ==
    {"Date", "Telecaller", "Total Calls", "New Data", "CRM Data",
     "Country Data", "Fair Data", "Video", "Visited Students"}

numeric_cols ==
    {"Total Calls", "New Data", "CRM Data", "Fair Data", "Visited Students"}

TimeRanges == {"today", "yesterday", "week", "month", "all"}

----------------------------------------------------------------------------
(* Values *)

\* Python truthiness of an optional string argument
Truthy(x) == x # None /\ x # ""

\* a cell of the Date column: a string that parses to the instant ts, or
\* one that does not parse
DateCell(ts) == [ok |-> TRUE, ts |-> ts]
BadDateCell == [ok |-> FALSE, ts |-> 0]

\* a Date cell that pandas parses to 00:00:01 of a calendar day, the time
\* marker the report form writes
DateAt(day) == DateCell(day * TicksPerDay + 1)

\* Timestamp.date()
DateOf(ts) == ts \div TicksPerDay

\* timedelta(days = n)
timedelta(n) == n * TicksPerDay

\* strftime('%Y-%m-%d') of a calendar day
strftime(day) == [fmt |-> "%Y-%m-%d", day |-> day]

\* datetime.now().strftime('%Y-%m-%d %H:%M:%S')
timestamp(clock) == [fmt |-> "%Y-%m-%d %H:%M:%S", ts |-> clock]

\* p / q rounded to the nearest integer, ties to even
RoundHalfEven(p, q) ==
    LET f == p \div q
        r == p % q
    IN  IF 2 * r < q THEN f
        ELSE IF 2 * r > q THEN f + 1
        ELSE IF f % 2 = 0 THEN f ELSE f + 1

\* round(num / den, 1), in tenths.  The float quotient and the exact one
\* round alike unless the quotient is an exact tie in the second decimal,
\* which needs a divisor of at least 16 for the rates and of at least 20
\* (or a power of two) for the averages; ties go to even as numpy's do
Round1(num, den) == RoundHalfEven(10 * num, den)

Return(v) == [raised |-> FALSE, val |-> v]
Raise(e) == [raised |-> TRUE, exc |-> e]

----------------------------------------------------------------------------
(* DataFrames *)

\* pd.DataFrame(list of dicts)
DataFrame(rows) ==
    [columns |-> UNION {DOMAIN rows[i] : i \in DOMAIN rows}, rows |-> rows]

\* df.empty
Empty(df) == df.rows = <<>> \/ df.columns = {}

\* df[mask], given the rows the mask selects
Masked(df, rows) == [df EXCEPT !.rows = rows]

\* df[col].sum()
SumRows_first_only(rows, col) ==
    IF rows = <<>> THEN 0 ELSE Head(rows)[col]

RECURSIVE SumRows(_, _)
SumRows(rows, col) ==
    IF rows = <<>> THEN 0 ELSE Head(rows)[col] + SumRows(Tail(rows), col)

\* pd.to_datetime(cell, errors='coerce')
to_datetime(cell) == IF cell.ok THEN cell.ts ELSE NaT

\* pd.to_numeric(cell, errors='coerce').fillna(0).astype(int) of a cell that
\* is finite once coerced
to_numeric(cell) == IF cell \in Nat THEN cell ELSE 0

\* astype(int) raises on a column that holds a non-finite float, which
\* fillna(0) leaves in place
astype_int_raises(rows) ==
    \E i \in DOMAIN rows :
        \E c \in numeric_cols \cap DOMAIN rows[i] : rows[i][c] = Infinite

\* df.dropna(subset=['Date'])
dropna_keep_all(rows) == rows

dropna(rows) == SelectSeq(rows, LAMBDA r : r["Date"] # NaT)

\* df.sort_values('Date', ascending=False): rows with equal dates keep
\* their order
RECURSIVE InsertDesc(_, _)
InsertDesc(s, r) ==
    IF s = <<>> THEN <<r>>
    ELSE IF Head(s)["Date"] >= r["Date"]
         THEN <<Head(s)>> \o InsertDesc(Tail(s), r)
         ELSE <<r>> \o s

RECURSIVE sort_values_desc(_)
sort_values_desc(rows) ==
    IF rows = <<>> THEN <<>>
    ELSE InsertDesc(sort_values_desc(SubSeq(rows, 1, Len(rows) - 1)),
                    rows[Len(rows)])

\* DataProcessor.get_all_reports() without filters.  An exception inside
\* it is caught and an empty DataFrame returned in place of the reports
get_all_reports(ws) ==
    LET df == DataFrame(ws)
    IN  IF Empty(df) THEN df
        ELSE
          LET dated ==
                IF "Date" \in df.columns
                THEN dropna(
                       [i \in DOMAIN df.rows |->
                          [c \in DOMAIN df.rows[i] |->
                             IF c = "Date" THEN to_datetime(df.rows[i][c])
                             ELSE df.rows[i][c]]])
                ELSE df.rows
              numeric ==
                [i \in DOMAIN dated |->
                   [c \in DOMAIN dated[i] |->
                      IF c \in numeric_cols THEN to_numeric(dated[i][c])
                      ELSE dated[i][c]]]
          IN  IF astype_int_raises(dated) THEN DataFrame(<<>>)
              ELSE [columns |-> df.columns,
                    rows |-> IF numeric # <<>> /\ "Date" \in df.columns
                             THEN sort_values_desc(numeric) ELSE numeric]

----------------------------------------------------------------------------
(* Text: a string is the sequence of its characters *)

Digit(n) ==
    CASE n = 0 -> "0" [] n = 1 -> "1" [] n = 2 -> "2" [] n = 3 -> "3"
      [] n = 4 -> "4" [] n = 5 -> "5" [] n = 6 -> "6" [] n = 7 -> "7"
      [] n = 8 -> "8" [] n = 9 -> "9"

\* str(n) of a non-negative int
RECURSIVE Digits(_)
Digits(n) ==
    IF n < 10 THEN <<Digit(n)>> ELSE Digits(n \div 10) \o <<Digit(n % 10)>>

\* the characters of the text cells the worksheets of the model hold
Chars(cell) ==
    CASE cell = "Prakriti" -> <<"P", "r", "a", "k", "r", "i", "t", "i">>
      [] cell = "Raphiya" -> <<"R", "a", "p", "h", "i", "y", "a">>
      [] cell = "India" -> <<"I", "n", "d", "i", "a">>
      [] cell = "Nepal" -> <<"N", "e", "p", "a", "l">>
      [] cell = "Yes" -> <<"Y", "e", "s">>
      [] cell = "No" -> <<"N", "o">>
      [] cell = "clip" -> <<"c", "l", "i", "p">>
      [] cell = "" -> <<>>

\* df.astype(str): a Timestamp prints as date, blank, time of day; the
\* 'date' and 'timestamp' of a local record are the texts the program wrote
astype_str(col, cell) ==
    IF col = "Date"
    THEN Digits(DateOf(cell)) \o <<" ", "0", "0", ":", "0", "0", ":", "0">>
           \o Digits(cell % TicksPerDay)
    ELSE IF col \in numeric_cols THEN Digits(cell)
    ELSE IF col \in {"total_calls", "new_data", "crm_data", "fair_data",
                     "visited_students"}
    THEN Digits(cell)
    ELSE IF col \in {"date", "timestamp"}
    THEN Digits(DateOf(cell.ts)) \o <<" ", "0", "0", ":", "0", "0", ":", "0">>
           \o Digits(cell.ts % TicksPerDay)
    ELSE Chars(cell)

\* str.lower()
lower(text) ==
    [k \in DOMAIN text |->
       CASE text[k] = "P" -> "p" [] text[k] = "R" -> "r"
         [] text[k] = "I" -> "i" [] text[k] = "N" -> "n"
         [] text[k] = "Y" -> "y" [] text[k] = "E" -> "e"
         [] OTHER -> text[k]]

\* re.compile(pat) raises re.error: an opening parenthesis that is never
\* closed (no pattern of the model holds a closing one)
re_error(pat) == \E k \in DOMAIN pat : pat[k] = "("

\* re.search(pat, text) for a pattern of literal characters and '.', which
\* matches any character
re_search(pat, text) ==
    \E k \in 1..(Len(text) + 1) :
        /\ k + Len(pat) - 1 <= Len(text)
        /\ \A j \in DOMAIN pat : pat[j] = "." \/ pat[j] = text[k + j - 1]

----------------------------------------------------------------------------
(* Filtered listing *)

\* a filter dict.  A filter the caller leaves out is None, NoDate for the
\* two dates and the empty string for the search term
NoDate == 0 - 1

Filters(start_date, end_date, telecaller, video, search) ==
    [start_date |-> start_date, end_date |-> end_date,
     telecaller |-> telecaller, video |-> video, search |-> search]

\* the mask of the search filter over one row:
\* df.astype(str).apply(lambda x: x.str.lower().str.contains(term)).any(axis=1)
search_mask(r, search_term) ==
    \E c \in DOMAIN r : re_search(search_term, lower(astype_str(c, r[c])))

\* DataProcessor.get_all_reports(filters).  The masks keep the order of the
\* rows, so sorting by date before them gives the order sorting after does
get_all_reports_filtered(ws, filters) ==
    LET df == get_all_reports(ws)
        HasDate(k) == filters[k] # NoDate /\ "Date" \in df.columns
        s1 == IF HasDate("start_date")
              THEN SelectSeq(df.rows, LAMBDA r : DateOf(r["Date"]) >= filters.start_date)
              ELSE df.rows
        s2 == IF HasDate("end_date")
              THEN SelectSeq(s1, LAMBDA r : DateOf(r["Date"]) <= filters.end_date)
              ELSE s1
        byTc == Truthy(filters.telecaller) /\ filters.telecaller # "All"
        s3 == IF byTc
              THEN SelectSeq(s2, LAMBDA r : r["Telecaller"] = filters.telecaller)
              ELSE s2
        s4 == IF filters.video # None /\ filters.video # "All"
                 /\ "Video" \in df.columns
              THEN SelectSeq(s3, LAMBDA r : r["Video"] = filters.video)
              ELSE s3
        bySearch == filters.search # <<>>
        s5 == IF bySearch
              THEN SelectSeq(s4, LAMBDA r : search_mask(r, lower(filters.search)))
              ELSE s4
    IN  IF Empty(df) THEN df
        ELSE IF byTc /\ "Telecaller" \notin df.columns THEN DataFrame(<<>>)
        ELSE IF bySearch /\ re_error(lower(filters.search)) THEN DataFrame(<<>>)
        ELSE Masked(df, s5)

----------------------------------------------------------------------------
(* Summary statistics *)

ZeroStats ==
    [total_calls |-> 0, new_data |-> 0, crm_data |-> 0, video_activities |-> 0,
     country_data |-> 0, country_data_count |-> 0, fair_data |-> 0,
     visited_students |-> 0, avg_calls_per_day |-> 0,
     avg_new_data_per_day |-> 0, crm_completion_rate |-> 0,
     conversion_rate |-> 0]

\* the date filter of one time range (the rows of df kept)
BucketFilter(df, today, time_range) ==
    IF "Date" \notin df.columns THEN df
    ELSE IF time_range = "today"
         THEN Masked(df,
                     SelectSeq(df.rows, LAMBDA r : DateOf(r["Date"]) = today))
    ELSE IF time_range = "yesterday"
         THEN Masked(df,
                     SelectSeq(df.rows, LAMBDA r : DateOf(r["Date"]) = today - 1))
    ELSE IF time_range = "week"
         THEN Masked(df,
                     SelectSeq(df.rows, LAMBDA r : DateOf(r["Date"]) >= today - WeekDays))
    ELSE IF time_range = "month"
         THEN Masked(df,
                     SelectSeq(df.rows, LAMBDA r : DateOf(r["Date"]) >= today - MonthDays))
    ELSE df

\* df[col].sum() if not df.empty and col in df.columns else 0
GuardedSum(df, col) ==
    IF ~Empty(df) /\ col \in df.columns THEN SumRows(df.rows, col) ELSE 0

\* (part / total_calls * 100) if total_calls > 0 else 0, rounded to one
\* decimal
Rate_swapped(part, total_calls) ==
    IF part > 0 THEN Round1(total_calls * 100, part) ELSE 0

Rate(part, total_calls) ==
    IF total_calls > 0 THEN Round1(part * 100, total_calls) ELSE 0

\* total / num_days if num_days > 0 else 0, rounded to one decimal
Average_undivided(total, num_days) ==
    IF num_days > 0 THEN Round1(total, 1) ELSE 0

Average(total, num_days) ==
    IF num_days > 0 THEN Round1(total, num_days) ELSE 0

get_dashboard_stats(ws, clock, time_range, telecaller) ==
    LET all == get_all_reports(ws)
    IN  IF Empty(all) THEN Return(ZeroStats)
        ELSE
          LET byTc == IF Truthy(telecaller) /\ "Telecaller" \in all.columns
                      THEN Masked(all,
                                  SelectSeq(all.rows, LAMBDA r : r["Telecaller"] = telecaller))
                      ELSE all
              today == DateOf(clock)
              df == BucketFilter(byTc, today, time_range)
              total_calls == GuardedSum(df, "Total Calls")
              new_data == GuardedSum(df, "New Data")
              crm_data == GuardedSum(df, "CRM Data")
              video_activities ==
                IF ~Empty(df) /\ "Video" \in df.columns
                THEN Len(SelectSeq(df.rows, LAMBDA r : r["Video"] = "Yes"))
                ELSE 0
              country_data_count ==
                IF ~Empty(df) /\ "Country Data" \in df.columns
                THEN Len(SelectSeq(df.rows, LAMBDA r : r["Country Data"] # ""))
                ELSE 0
              fair_data == GuardedSum(df, "Fair Data")
              visited_students == GuardedSum(df, "Visited Students")
              num_days ==
                IF ~Empty(df) /\ "Date" \in df.columns
                THEN Cardinality({DateOf(df.rows[i]["Date"]) : i \in DOMAIN df.rows})
                ELSE 1
              avg_calls_per_day == Average(total_calls, num_days)
              avg_new_data_per_day == Average(new_data, num_days)
              crm_completion_rate == Rate(crm_data, total_calls)
              conversion_rate == Rate(new_data, total_calls)
          IN  Return(
                [total_calls |-> total_calls, new_data |-> new_data,
                 crm_data |-> crm_data, video_activities |-> video_activities,
                 country_data |-> country_data_count,
                 country_data_count |-> country_data_count,
                 fair_data |-> fair_data, visited_students |-> visited_students,
                 avg_calls_per_day |-> avg_calls_per_day,
                 avg_new_data_per_day |-> avg_new_data_per_day,
                 crm_completion_rate |-> crm_completion_rate,
                 conversion_rate |-> conversion_rate])

----------------------------------------------------------------------------
(* Trend series *)

\* the calendar days of a set, ascending (groupby sorts its keys and
\* sort_values('Date') keeps them so)
RECURSIVE SortedDays_descending(_)
SortedDays_descending(S) ==
    IF S = {} THEN <<>>
    ELSE LET m == CHOOSE x \in S : \A y \in S : x >= y
         IN  <<m>> \o SortedDays_descending(S \ {m})

RECURSIVE SortedDays(_)
SortedDays(S) ==
    IF S = {} THEN <<>>
    ELSE LET m == CHOOSE x \in S : \A y \in S : x <= y
         IN  <<m>> \o SortedDays(S \ {m})

\* df.groupby(df['Date'].dt.date).agg({'Total Calls': 'sum', 'New Data': 'sum'})
\* .reset_index(), plus the 'date' string column, as to_dict('records')
DailyStats(rows) ==
    LET days == SortedDays({DateOf(rows[i]["Date"]) : i \in DOMAIN rows})
        OfDay(d) == SelectSeq(rows, LAMBDA r : DateOf(r["Date"]) = d)
    IN  [k \in DOMAIN days |->
           ("Date" :> days[k]) @@
           ("Total Calls" :> SumRows(OfDay(days[k]), "Total Calls")) @@
           ("New Data" :> SumRows(OfDay(days[k]), "New Data")) @@
           ("date" :> strftime(days[k]))]

get_weekly_summary(ws, clock, telecaller) ==
    LET all == get_all_reports(ws)
    IN  IF Empty(all) THEN Return(<<>>)
        ELSE
          LET df == IF Truthy(telecaller) /\ "Telecaller" \in all.columns
                    THEN Masked(all,
                                SelectSeq(all.rows, LAMBDA r : r["Telecaller"] = telecaller))
                    ELSE all
              end_date == clock
              start_date == end_date - timedelta(WeeklySummaryDays)
          IN  IF "Date" \notin df.columns THEN Return(<<>>)
              ELSE
                LET df_week ==
                      Masked(df,
                             SelectSeq(df.rows, LAMBDA r : r["Date"] >= start_date
                                            /\ r["Date"] <= end_date))
                IN  IF Empty(df_week) THEN Return(<<>>)
                    ELSE IF ~({"Total Calls", "New Data"} \subseteq df_week.columns)
                         THEN Raise("KeyError")
                    ELSE Return(DailyStats(df_week.rows))

get_performance_trend(ws, clock, days, telecaller) ==
    LET all == get_all_reports(ws)
    IN  IF Empty(all) THEN Return(<<>>)
        ELSE
          LET df == IF Truthy(telecaller) /\ "Telecaller" \in all.columns
                    THEN Masked(all,
                                SelectSeq(all.rows, LAMBDA r : r["Telecaller"] = telecaller))
                    ELSE all
              end_date == clock
              start_date == end_date - timedelta(days)
          IN  IF "Date" \notin df.columns THEN Return(<<>>)
              ELSE
                LET df_trend ==
                      Masked(df,
                             SelectSeq(df.rows, LAMBDA r : r["Date"] >= start_date
                                            /\ r["Date"] <= end_date))
                IN  IF Empty(df_trend) THEN Return(<<>>)
                    ELSE IF ~({"Total Calls", "New Data"} \subseteq df_trend.columns)
                         THEN Raise("KeyError")
                    ELSE Return(DailyStats(df_trend.rows))

\* the columns dashboard_page and analysis_page read from the DataFrame they
\* build of the rows of a trend or weekly series
ChartFields == {"date", "total_calls", "new_data"}

----------------------------------------------------------------------------
(* Telecaller rollup *)

\* (new / total * 100).round(1) on float Series: 0/0 is NaN, x/0 is inf
SeriesRate(new, total) ==
    IF total = 0
    THEN IF new = 0 THEN [kind |-> "nan", tenths |-> 0]
                    ELSE [kind |-> "inf", tenths |-> 0]
    ELSE [kind |-> "num", tenths |-> Round1(new * 100, total)]

\* the rows of the rollup DataFrame; an empty DataFrame is the empty set
get_telecaller_performance(ws) ==
    LET df == get_all_reports(ws)
    IN  IF Empty(df) \/ "Telecaller" \notin df.columns THEN Return({})
        ELSE IF ~({"Total Calls", "New Data", "CRM Data", "Video"}
                    \subseteq df.columns)
             THEN Raise("KeyError")
        ELSE
          LET Group(t) == SelectSeq(df.rows, LAMBDA r : r["Telecaller"] = t)
          IN  Return(
                {("Telecaller" :> t) @@
                 ("Total Calls" :> SumRows(Group(t), "Total Calls")) @@
                 ("New Data" :> SumRows(Group(t), "New Data")) @@
                 ("CRM Data" :> SumRows(Group(t), "CRM Data")) @@
                 ("Video Activities" :>
                    Len(SelectSeq(Group(t), LAMBDA r : r["Video"] = "Yes"))) @@
                 ("Conversion Rate" :>
                    SeriesRate(SumRows(Group(t), "New Data"),
                               SumRows(Group(t), "Total Calls")))
                 : t \in {df.rows[i]["Telecaller"] : i \in DOMAIN df.rows}})

----------------------------------------------------------------------------
(* Video listing and country distribution *)

get_video_activities(ws, clock, days, telecaller) ==
    LET all == get_all_reports(ws)
    IN  IF Empty(all) THEN Return(<<>>)
        ELSE
          LET df == IF Truthy(telecaller) /\ "Telecaller" \in all.columns
                    THEN Masked(all,
                                SelectSeq(all.rows, LAMBDA r : r["Telecaller"] = telecaller))
                    ELSE all
              end_date == clock
              start_date == end_date - timedelta(days)
          IN  IF ~("Date" \in df.columns /\ "Video" \in df.columns)
              THEN Return(<<>>)
              ELSE
                LET video_df ==
                      Masked(df,
                             SelectSeq(df.rows, LAMBDA r : r["Video"] = "Yes"
                                            /\ r["Date"] >= start_date
                                            /\ r["Date"] <= end_date))
                    sorted == sort_values_desc(video_df.rows)
                IN  IF Empty(video_df) THEN Return(<<>>)
                    ELSE Return([i \in DOMAIN sorted |->
                                   sorted[i] @@
                                   ("date" :> strftime(DateOf(sorted[i]["Date"])))])

\* Series.value_counts().to_dict(): a function from value to count
value_counts_ones(rows, col) ==
    [c \in {rows[i][col] : i \in DOMAIN rows} |-> 1]

value_counts(rows, col) ==
    [c \in {rows[i][col] : i \in DOMAIN rows} |->
       Len(SelectSeq(rows, LAMBDA r : r[col] = c))]

\* a cell the worksheet leaves empty is read as '' (get_all_records), so
\* notna() holds of every cell of the column
get_country_distribution(ws, telecaller) ==
    LET all == get_all_reports(ws)
    IN  IF Empty(all) THEN Return(<<>>)
        ELSE
          LET df == IF Truthy(telecaller) /\ "Telecaller" \in all.columns
                    THEN Masked(all,
                                SelectSeq(all.rows, LAMBDA r : r["Telecaller"] = telecaller))
                    ELSE all
          IN  IF "Country Data" \notin df.columns THEN Return(<<>>)
              ELSE
                LET country_data ==
                      Masked(df,
                             SelectSeq(df.rows, LAMBDA r : r["Country Data"] # ""))
                IN  IF Empty(country_data) THEN Return(<<>>)
                    ELSE Return(value_counts(country_data.rows, "Country Data"))

----------------------------------------------------------------------------
(* Users and sessions *)

\* hashlib.sha256(password).hexdigest(): passwords that differ have hashes
\* that differ
hash_password(password) == [sha256 |-> password]

AdminPermissions ==
    [can_edit_all |-> TRUE, can_delete_all |-> TRUE, can_add_reports |-> TRUE,
     can_edit_own |-> TRUE, can_view_all |-> TRUE, can_manage_users |-> TRUE,
     can_export_data |-> TRUE, can_view_analytics |-> TRUE]

TelecallerPermissions ==
    [can_edit_all |-> FALSE, can_delete_all |-> FALSE,
     can_add_reports |-> TRUE, can_edit_own |-> TRUE, can_view_all |-> FALSE,
     can_manage_users |-> FALSE, can_export_data |-> FALSE,
     can_view_analytics |-> TRUE]

\* permissions.get(name, False) of the empty dict
NoPermissions == [p \in DOMAIN AdminPermissions |-> FALSE]

\* AuthManager.create_default_users
default_users ==
    ("admin" :>
        [password |-> hash_password("admin123"), role |-> "admin",
         name |-> "Administrator", telecaller_name |-> None,
         permissions |-> AdminPermissions,
         created_at |-> timestamp(FirstTick),
         updated_at |-> timestamp(FirstTick), is_active |-> TRUE]) @@
    [u \in {"prakriti", "raphiya", "sudikshya", "shiru"} |->
        LET telecaller == CASE u = "prakriti" -> "Prakriti"
                            [] u = "raphiya" -> "Raphiya"
                            [] u = "sudikshya" -> "Sudikshya"
                            [] u = "shiru" -> "Shiru"
            pw == CASE u = "prakriti" -> "prakriti123"
                    [] u = "raphiya" -> "raphiya123"
                    [] u = "sudikshya" -> "sudikshya123"
                    [] u = "shiru" -> "shiru123"
        IN  [password |-> hash_password(pw), role |-> "telecaller",
             name |-> telecaller, telecaller_name |-> telecaller,
             permissions |-> TelecallerPermissions,
             created_at |-> timestamp(FirstTick),
             updated_at |-> timestamp(FirstTick), is_active |-> TRUE]]

\* the browser sessions
Sessions == {1, 2}

\* editing_report = None
NoIndex == 0 - 1

\* init_session_state
NewSession ==
    [authenticated |-> FALSE, user |-> None, user_role |-> None,
     user_name |-> None, telecaller_name |-> None,
     user_permissions |-> NoPermissions, edit_mode |-> FALSE,
     editing_report |-> NoIndex]

----------------------------------------------------------------------------
(* Report form and storage service *)

\* the columns _ensure_worksheets gives the 'Reports' worksheet that the
\* operations of this module read or write ('Day', 'Other Work Description'
\* and 'Remarks' are carried along by the program and never looked at)
SheetHeaders == ReportHeaders \cup {"Video Details", "Timestamp"}

\* the key of report_data that add_report writes under a column
ColumnKey(c) ==
    CASE c = "Date" -> "date"
      [] c = "Telecaller" -> "telecaller"
      [] c = "Total Calls" -> "total_calls"
      [] c = "New Data" -> "new_data"
      [] c = "CRM Data" -> "crm_data"
      [] c = "Country Data" -> "country_data"
      [] c = "Fair Data" -> "fair_data"
      [] c = "Video" -> "video"
      [] c = "Video Details" -> "video_details"
      [] c = "Visited Students" -> "visited_students"
      [] c = "Timestamp" -> "timestamp"

\* str.strip() of the texts typed into the form
strip(text) ==
    CASE text = " " -> ""
      [] text = " clip" -> "clip"
      [] OTHER -> text

\* the value of the 'Video Details' widget: the text typed when video is
\* 'Yes', the empty string otherwise
video_details_widget(video, typed) == IF video = "Yes" THEN typed ELSE ""

\* the errors the submit handler collects
ValidationErrors_no_video_rule(form) ==
    {e \in {"telecaller", "total_calls", "new_data", "crm_data"} :
       \/ e = "telecaller" /\ form.telecaller = "Select Telecaller"
       \/ e = "total_calls" /\ form.total_calls = 0
       \/ e = "new_data" /\ form.new_data = 0
       \/ e = "crm_data" /\ form.crm_data = 0}

ValidationErrors(form) ==
    {e \in {"telecaller", "total_calls", "new_data", "crm_data", "video_details"} :
       \/ e = "telecaller" /\ form.telecaller = "Select Telecaller"
       \/ e = "total_calls" /\ form.total_calls = 0
       \/ e = "new_data" /\ form.new_data = 0
       \/ e = "crm_data" /\ form.crm_data = 0
       \/ e = "video_details" /\ form.video = "Yes"
            /\ strip(form.video_details) = ""}

\* report_data as the submit handler builds it from the widgets; the date
\* is written as '%d/%m/%Y 00:00:01', the first second of the day picked
report_data(form) ==
    [date |-> DateAt(form.report_date), telecaller |-> form.telecaller,
     total_calls |-> form.total_calls, new_data |-> form.new_data,
     crm_data |-> form.crm_data, country_data |-> form.country_data,
     fair_data |-> form.fair_data, video |-> form.video,
     video_details |-> IF form.video = "Yes" THEN form.video_details ELSE "",
     visited_students |-> form.visited_students]

\* report_data['timestamp'] = ...
stamped(data, clock) ==
    [k \in DOMAIN data \cup {"timestamp"} |->
       IF k = "timestamp" THEN timestamp(clock) ELSE data[k]]

\* the row add_report appends, under the worksheet's header
sheet_row(data) == [c \in header |-> data[ColumnKey(c)]]

\* _update_local_report: reports[index] = report_data when 0 <= index < len
update_local_first(list, index, data) ==
    IF 0 <= index /\ index < Len(list)
    THEN [ok |-> TRUE, list |-> [list EXCEPT ![1] = data]]
    ELSE [ok |-> FALSE, list |-> list]

update_local(list, index, data) ==
    IF 0 <= index /\ index < Len(list)
    THEN [ok |-> TRUE, list |-> [list EXCEPT ![index + 1] = data]]
    ELSE [ok |-> FALSE, list |-> list]

\* _delete_local_report: reports.pop(index) when 0 <= index < len
delete_local(list, index) ==
    IF 0 <= index /\ index < Len(list)
    THEN [ok |-> TRUE,
          list |-> SubSeq(list, 1, index) \o SubSeq(list, index + 2, Len(list))]
    ELSE [ok |-> FALSE, list |-> list]

\* GoogleSheetsService.get_all_reports: the worksheet's records when
\* connected, the local list otherwise
Stored == IF use_google_sheets THEN reports ELSE local_reports

\* pd.DataFrame(records) numbers its rows from 0; the label stays with a
\* row through masks and sorting, here as the entry 'index' of the row
Labelled(rows) == [i \in DOMAIN rows |-> rows[i] @@ ("index" :> i - 1)]

\* verify_password
verify_password(password, hashed) == hash_password(password) = hashed

\* AuthManager.authenticate: (True, the user's record) or (False, None),
\* None being the record without user_data
authenticate_inactive_too(username, password) ==
    IF /\ username \in DOMAIN users
       /\ verify_password(password, users[username].password)
    THEN [success |-> TRUE, user_data |-> users[username]]
    ELSE [success |-> FALSE]

authenticate(username, password) ==
    IF /\ username \in DOMAIN users
       /\ users[username].is_active
       /\ verify_password(password, users[username].password)
    THEN [success |-> TRUE, user_data |-> users[username]]
    ELSE [success |-> FALSE]

\* AuthManager.add_user: the answer and the store it leaves
add_user(username, user_data) ==
    IF username \in DOMAIN users
    THEN [success |-> FALSE, message |-> "Username already exists",
          users |-> users]
    ELSE [success |-> TRUE, message |-> "User added successfully",
          users |->
            [u \in DOMAIN users \cup {username} |->
               IF u = username
               THEN [password |-> hash_password(user_data.password),
                     role |-> user_data.role, name |-> user_data.name,
                     telecaller_name |-> user_data.telecaller_name,
                     permissions |-> IF user_data.role = "admin"
                                     THEN AdminPermissions
                                     ELSE TelecallerPermissions,
                     created_at |-> timestamp(now),
                     updated_at |-> timestamp(now), is_active |-> TRUE]
               ELSE users[u]]]

\* AuthManager.delete_user
delete_user_any(username) ==
    IF username \in DOMAIN users
    THEN [success |-> TRUE, message |-> "User deleted successfully",
          users |-> [u \in DOMAIN users \ {username} |-> users[u]]]
    ELSE [success |-> FALSE, message |-> "User not found", users |-> users]

delete_user(username) ==
    IF username = "admin"
    THEN [success |-> FALSE, message |-> "Cannot delete admin user",
          users |-> users]
    ELSE IF username \in DOMAIN users
    THEN [success |-> TRUE, message |-> "User deleted successfully",
          users |-> [u \in DOMAIN users \ {username} |-> users[u]]]
    ELSE [success |-> FALSE, message |-> "User not found", users |-> users]

\* AuthManager.update_permissions
update_permissions(username, permissions) ==
    IF username \in DOMAIN users
    THEN [success |-> TRUE, message |-> "Permissions updated successfully",
          users |-> [users EXCEPT ![username] =
                       [@ EXCEPT !.permissions = permissions,
                                 !.updated_at = timestamp(now)]]]
    ELSE [success |-> FALSE, message |-> "User not found", users |-> users]

can_view_all_reports(ss) ==
    ss.user_role = "admin" \/ ss.user_permissions.can_view_all

can_edit_report(ss, report_telecaller) ==
    \/ ss.user_role = "admin"
    \/ ss.user_permissions.can_edit_all
    \/ ss.user_permissions.can_edit_own /\ report_telecaller = ss.telecaller_name

can_delete_report(ss, report_telecaller) ==
    ss.user_role = "admin" \/ ss.user_permissions.can_delete_all

\* dashboard_page: the statistics, the weekly chart and the 30 day trend,
\* of the session's telecaller unless the session may view all reports,
\* and the telecaller chart for the sessions that may
dashboard_page(ss, ws, clock, selected_range) ==
    LET telecaller == IF can_view_all_reports(ss) THEN None
                      ELSE ss.telecaller_name
        charts == [stats |-> get_dashboard_stats(ws, clock, selected_range,
                                                 telecaller),
                   weekly_data |-> get_weekly_summary(ws, clock, telecaller),
                   trend_data |-> get_performance_trend(ws, clock, MonthDays,
                                                        telecaller)]
    IN  IF can_view_all_reports(ss)
        THEN charts @@ ("telecaller_stats" :> get_telecaller_performance(ws))
        ELSE charts

\* system_status_page: the metrics of 'Connection Status' and of 'Data
\* Health'.  The worksheet gives every record every column, so no cell of
\* the frame is NaN and every record counts as complete
system_status_page(ss, ws, connected, user_count, log_count) ==
    LET df == get_all_reports(ws)
        total_records == Len(df.rows)
        video_records ==
            IF "Video" \in df.columns
            THEN Len(SelectSeq(df.rows, LAMBDA r : r["Video"] = "Yes"))
            ELSE 0
        connection ==
            ("google_sheets" :> connected) @@
            ("Total Reports" :> total_records) @@
            ("Registered Users" :> user_count) @@
            (IF can_view_all_reports(ss) /\ ~Empty(df)
                /\ "Telecaller" \in df.columns
             THEN ("Active Telecallers" :>
                     Cardinality({df.rows[i]["Telecaller"] : i \in DOMAIN df.rows}))
             ELSE <<>>)
        health ==
            IF Empty(df) THEN Return(<<>>)
            ELSE IF can_view_all_reports(ss)
            THEN Return(("Total Records" :> total_records) @@
                        ("Complete Records" :> total_records) @@
                        ("Completion Rate" :> Round1(100 * total_records,
                                                     total_records)) @@
                        ("Video Activities" :> video_records) @@
                        ("Video Rate" :> Round1(100 * video_records,
                                                total_records)) @@
                        (IF log_count > 0
                         THEN ("Edit History Entries" :> log_count)
                         ELSE <<>>))
            ELSE IF "Telecaller" \notin df.columns THEN Raise("KeyError")
            ELSE Return("My Reports" :>
                          Len(SelectSeq(df.rows, LAMBDA r :
                                r["Telecaller"] = ss.telecaller_name)))
    IN  [connection |-> connection, health |-> health]

can_manage_users(ss) ==
    ss.user_role = "admin" \/ ss.user_permissions.can_manage_users

\* the reports daily_reports_page lists for a session, with the date
\* inputs left at the last ListingDays days and no video or search filter
daily_reports(ss) ==
    get_all_reports_filtered(
        Labelled(Stored),
        Filters(DateOf(now - timedelta(ListingDays)), DateOf(now),
                IF can_view_all_reports(ss) THEN None ELSE ss.telecaller_name,
                None, <<>>))

\* the rows of a listing the session may pick in the select box; the
\* page raises KeyError before it gets there when the listing has rows
\* and no 'Date' column
editable_rows(ss, listing) ==
    IF Empty(listing) \/ "Date" \notin listing.columns THEN <<>>
    ELSE IF ss.user_role = "admin" THEN listing.rows
    ELSE SelectSeq(listing.rows, LAMBDA r : r["Telecaller"] = ss.telecaller_name)

\* the rows in the select box of a session, as a set
editable_reports(ss) ==
    LET rows == editable_rows(ss, daily_reports(ss))
    IN  {rows[i] : i \in DOMAIN rows}

\* add_report_page in edit mode: original_data = reports.iloc[report_idx]
\* of get_all_reports(), the row at that position of the date-sorted frame
original_data(ss) ==
    get_all_reports(Labelled(Stored)).rows[ss.editing_report + 1]

\* the entry written to the edit log
edit_log(ss, action, telecaller) ==
    [action |-> action, user |-> ss.user_name, username |-> ss.user,
     role |-> ss.user_role, telecaller |-> telecaller]

----------------------------------------------------------------------------
(* Inputs *)

TelecallerArgs == {None, "Prakriti"}
TrendDays == {7, 30}

\* one worksheet row, cells in header order
Row(date, telecaller, total_calls, new_data, crm_data, country_data, fair_data, video, visited_students) ==
    ("Date" :> date) @@ ("Telecaller" :> telecaller) @@
    ("Total Calls" :> total_calls) @@ ("New Data" :> new_data) @@
    ("CRM Data" :> crm_data) @@ ("Country Data" :> country_data) @@
    ("Fair Data" :> fair_data) @@ ("Video" :> video) @@
    ("Visited Students" :> visited_students)

\* the rows a caller may append: today, yesterday, the edges of the 7 and
\* 30 day windows, a future day and an unparseable date; groups with no
\* calls, with more new data than calls, with and without video and country
ReportPool ==
    {Row(DateAt(Today), "Prakriti", 2, 1, 1, "India", 0, "Yes", 1),
     Row(DateAt(Today), "Raphiya", 0, 1, 0, "", 1, "No", 0),
     Row(DateAt(Today - 1), "Prakriti", 1, 2, 0, "Nepal", 0, "No", 0),
     Row(DateAt(Today - WeekDays + 1), "Prakriti", 1, 1, 1, "", 0, "No", 0),
     Row(DateAt(Today - WeekDays), "Raphiya", 1, 0, 1, "India", 0, "Yes", 0),
     Row(DateAt(Today + 1), "Prakriti", 1, 1, 0, "", 0, "No", 2),
     Row(DateAt(Today - MonthDays), "Raphiya", 2, 0, 2, "Nepal", 1, "Yes", 0),
     Row(BadDateCell, "Prakriti", 1, 1, 1, "India", 0, "Yes", 0),
     Row(DateAt(Today - MonthDays - 1), "Raphiya", 0, 0, 0, "", 0, "No", 0)}

\* the rows appended to a worksheet whose header lacks a column
ColsPool ==
    {Row(DateAt(Today), "Prakriti", 2, 1, 1, "India", 0, "Yes", 1),
     Row(DateAt(Today - 1), "Raphiya", 1, 0, 1, "", 0, "No", 0)}

\* the rows behind the Daily Reports listing
FilterPool ==
    {Row(DateAt(Today), "Prakriti", 2, 1, 1, "India", 0, "Yes", 1),
     Row(DateAt(Today - 1), "Raphiya", 1, 0, 1, "", 0, "No", 0),
     Row(DateAt(Today - 2), "Prakriti", 1, 2, 0, "Nepal", 0, "No", 0),
     Row(BadDateCell, "Raphiya", 1, 1, 1, "India", 0, "Yes", 0)}

\* what daily_reports_page can put into the filter dict
SearchTerms == {<<>>, <<"i", "n">>, <<"N", "E">>, <<"z">>, <<".">>, <<"(">>}

FilterArgs ==
    {Filters(sd, ed, tc, v, <<>>) :
       sd \in {NoDate, Today - 1}, ed \in {NoDate, Today - 1},
       tc \in {None, "All", "Prakriti"}, v \in {None, "All", "Yes"}}
    \cup
    {Filters(sd, NoDate, None, v, q) :
       sd \in {NoDate, Today - 1}, v \in {None, "Yes"}, q \in SearchTerms}

\* rows whose numeric cells were typed into the worksheet by hand
CellsPool ==
    {Row(DateAt(Today), "Prakriti", 2, 1, 1, "India", 0, "Yes", 1),
     Row(DateAt(Today), "Raphiya", NotANumber, 1, 0, "", 1, "No", 0),
     Row(DateAt(Today - 1), "Prakriti", 1, Infinite, 0, "Nepal", 0, "No", 0),
     Row(BadDateCell, "Prakriti", 1, Infinite, 1, "India", 0, "Yes", 0)}

NoResult == [op |-> "none"]

\* what a user may enter in the report form: the date input is left at
\* today, the counts that play no part in the checks are left at 1 and 0
FormInputs(today, calls, videos) ==
    {[report_date |-> today, telecaller |-> tc, total_calls |-> n,
      new_data |-> 1, crm_data |-> 1, country_data |-> "", fair_data |-> 0,
      video |-> v, video_details |-> video_details_widget(v, typed),
      visited_students |-> 0] :
        tc \in {"Select Telecaller", "Prakriti"}, n \in calls,
        v \in videos, typed \in {"", " ", "clip"}}

\* the forms of one user filling in the video fields
Forms(today) == FormInputs(today, {0, 2}, {"Yes", "No"})

\* the forms of two users at work on the same reports: new reports are
\* entered alike, an edit may change the number of calls
NewForms(today) == FormInputs(today, {2}, {"No"})
EditForms(today) == FormInputs(today, {2, 3}, {"No"})

\* what a user may type into the login form
Logins ==
    {<<"admin", "admin123">>, <<"prakriti", "prakriti123">>,
     <<"admin", "prakriti123">>, <<"shiru1", "shiru123">>}

\* stores the read operations may find: worksheets of one or two records,
\* a local list and an edit log that are empty or hold one entry
ReadSheets ==
    {<<>>} \cup {<<r>> : r \in FilterPool}
           \cup {p \in FilterPool \X FilterPool : p[1] # p[2]}

ReadLocals ==
    {<<>>} \cup {<<stamped(report_data(f), FirstTick)>> :
                   f \in {g \in NewForms(Today) : ValidationErrors(g) = {}}}

ReadLogs == {<<>>, <<edit_log(NewSession, "EDIT", "Prakriti")>>}

\* the local list as earlier sessions may have left it: empty, or one
\* report of either telecaller that went to the local file
DailyLocals ==
    ReadLocals \cup
    {<<[l[1] EXCEPT !.telecaller = "Raphiya"]>> : l \in ReadLocals \ {<<>>}}

\* the arguments of the calls on the user store: a user name that exists,
\* the administrator's, one that is unknown at first, one whose account is
\* switched off; passwords right and wrong
UserNames == {"admin", "prakriti", "shiru", "asha"}

Passwords == {"admin123", "prakriti123", "shiru123", "secret"}

\* user_data as the 'Add User' form builds it
NewUsers ==
    {[name |-> "Asha", role |-> role,
      telecaller_name |-> IF role = "telecaller" THEN "Asha" ELSE None,
      password |-> "secret"] : role \in {"telecaller", "admin"}}

\* the permissions the 'Manage Permissions' form can save
PermissionSets ==
    {[TelecallerPermissions EXCEPT !.can_edit_own = FALSE],
     [TelecallerPermissions EXCEPT !.can_view_all = TRUE,
                                   !.can_delete_all = TRUE]}

----------------------------------------------------------------------------
(* State machine *)

\* the stores and sessions after construction
InitApp ==
    /\ local_reports = <<>>
    /\ edit_logs = <<>>
    /\ users = default_users
    /\ session_state = [s \in Sessions |-> NewSession]

Init ==
    /\ reports = <<>>
    /\ header = ReportHeaders
    /\ now = FirstTick
    /\ result = NoResult
    /\ use_google_sheets = TRUE
    /\ InitApp

\* the worksheet's schema is owned outside the program: one column of the
\* header may be absent
InitCols ==
    /\ reports = <<>>
    /\ header \in {ReportHeaders \ {c} : c \in ReportHeaders}
    /\ now = FirstTick
    /\ result = NoResult
    /\ use_google_sheets = TRUE
    /\ InitApp

\* GoogleSheetsService.add_report: append_row under the worksheet's header.
\* A result describes the worksheet and the instant it was computed from,
\* so it is dropped when either changes
add_report(r) ==
    /\ Len(reports) < MaxReports
    /\ reports' = Append(reports, [c \in header |-> r[c]])
    /\ result' = NoResult
    /\ UNCHANGED <<header, now, appVars>>

\* the clock advances
Tick ==
    /\ now < LastTick
    /\ now' = now + 1
    /\ result' = NoResult
    /\ UNCHANGED <<reports, header, appVars>>

DashboardStats ==
    \E tr \in TimeRanges, tc \in TelecallerArgs :
        /\ result' = [op |-> "get_dashboard_stats", time_range |-> tr,
                      telecaller |-> tc,
                      out |-> get_dashboard_stats(Stored, now, tr, tc)]
        /\ UNCHANGED <<reports, header, now, appVars>>

WeeklySummary ==
    \E tc \in TelecallerArgs :
        /\ result' = [op |-> "get_weekly_summary", telecaller |-> tc,
                      out |-> get_weekly_summary(Stored, now, tc)]
        /\ UNCHANGED <<reports, header, now, appVars>>

PerformanceTrend ==
    \E d \in TrendDays, tc \in TelecallerArgs :
        /\ result' = [op |-> "get_performance_trend", days |-> d,
                      telecaller |-> tc,
                      out |-> get_performance_trend(Stored, now, d, tc)]
        /\ UNCHANGED <<reports, header, now, appVars>>

TelecallerPerformance_writes_back ==
    /\ result' = [op |-> "get_telecaller_performance",
                  out |-> get_telecaller_performance(Stored)]
    /\ reports' = get_all_reports(Stored).rows
    /\ UNCHANGED <<header, now, appVars>>

TelecallerPerformance ==
    /\ result' = [op |-> "get_telecaller_performance",
                  out |-> get_telecaller_performance(Stored)]
    /\ UNCHANGED <<reports, header, now, appVars>>

VideoActivities ==
    \E d \in TrendDays, tc \in TelecallerArgs :
        /\ result' = [op |-> "get_video_activities", days |-> d,
                      telecaller |-> tc,
                      out |-> get_video_activities(Stored, now, d, tc)]
        /\ UNCHANGED <<reports, header, now, appVars>>

CountryDistribution ==
    \E tc \in TelecallerArgs :
        /\ result' = [op |-> "get_country_distribution", telecaller |-> tc,
                      out |-> get_country_distribution(Stored, tc)]
        /\ UNCHANGED <<reports, header, now, appVars>>

\* the stores as the read operations may find them
InitReads ==
    /\ reports \in ReadSheets
    /\ header = ReportHeaders
    /\ now = FirstTick
    /\ result = NoResult
    /\ use_google_sheets \in BOOLEAN
    /\ local_reports \in ReadLocals
    /\ edit_logs \in ReadLogs
    /\ users = default_users
    /\ session_state = [s \in Sessions |-> NewSession]

AllReports ==
    \E f \in FilterArgs :
        /\ result' = [op |-> "get_all_reports", filters |-> f,
                      out |-> Return(get_all_reports_filtered(Stored, f).rows)]
        /\ UNCHANGED <<reports, header, now, appVars>>

Reads ==
    \/ DashboardStats
    \/ WeeklySummary
    \/ PerformanceTrend
    \/ TelecallerPerformance
    \/ VideoActivities
    \/ CountryDistribution

Next ==
    \/ \E r \in ReportPool : add_report(r)
    \/ Tick
    \/ Reads

NextCols ==
    \/ \E r \in ColsPool : add_report(r)
    \/ Tick
    \/ Reads

NextCells ==
    \/ \E r \in CellsPool : add_report(r)
    \/ Tick
    \/ Reads

NextFilter ==
    \/ \E r \in FilterPool : add_report(r)
    \/ AllReports

\* the application starts connected to the spreadsheet or, without
\* credentials, on the local JSON files
InitSheet ==
    /\ reports = <<>>
    /\ header = SheetHeaders
    /\ now = FirstTick
    /\ result = NoResult
    /\ use_google_sheets \in BOOLEAN
    /\ InitApp

\* login_page: what a successful login writes into the session
logged_in(ss, username, user_data) ==
    [ss EXCEPT !.authenticated = TRUE,
               !.user = username,
               !.user_role = user_data.role,
               !.user_name = user_data.name,
               !.telecaller_name = user_data.telecaller_name,
               !.user_permissions = user_data.permissions]

\* login_page: the Login button
Login(s, username, password) ==
    /\ ~session_state[s].authenticated
    /\ session_state' =
          IF authenticate(username, password).success
          THEN [session_state EXCEPT ![s] =
                  logged_in(@, username,
                            authenticate(username, password).user_data)]
          ELSE session_state
    /\ result' = NoResult
    /\ UNCHANGED <<reports, header, now, use_google_sheets, local_reports,
                   edit_logs, users>>

\* logout(): the session keys are cleared
Logout_keeps_user(s) ==
    /\ session_state[s].authenticated
    /\ session_state' = [session_state EXCEPT ![s].authenticated = FALSE]
    /\ result' = NoResult
    /\ UNCHANGED <<reports, header, now, use_google_sheets, local_reports,
                   edit_logs, users>>

Logout(s) ==
    /\ session_state[s].authenticated
    /\ session_state' = [session_state EXCEPT ![s] = NewSession]
    /\ result' = NoResult
    /\ UNCHANGED <<reports, header, now, use_google_sheets, local_reports,
                   edit_logs, users>>

\* daily_reports_page is in the navigation of every role but 'telecaller'
OnDailyReports_any_role(s) ==
    /\ session_state[s].authenticated

OnDailyReports(s) ==
    /\ session_state[s].authenticated
    /\ session_state[s].user_role # "telecaller"

\* daily_reports_page: 'Edit Selected Report' on the row labelled idx
EditSelected(s, idx) ==
    /\ OnDailyReports(s)
    /\ \E row \in editable_reports(session_state[s]) :
          /\ row["index"] = idx
          /\ session_state' =
                IF can_edit_report(session_state[s], row["Telecaller"])
                THEN [session_state EXCEPT ![s] =
                        [@ EXCEPT !.edit_mode = TRUE, !.editing_report = idx]]
                ELSE session_state
    /\ result' = NoResult
    /\ UNCHANGED <<reports, header, now, use_google_sheets, local_reports,
                   edit_logs, users>>

\* daily_reports_page: 'Delete Selected Report' on the row labelled idx:
\* log_edit_action, then delete_report, which works on the local list
\* whether or not the spreadsheet is connected
DeleteSelected(s, idx) ==
    /\ OnDailyReports(s)
    /\ \E row \in editable_reports(session_state[s]) :
          /\ row["index"] = idx
          /\ IF can_delete_report(session_state[s], row["Telecaller"])
             THEN /\ Len(edit_logs) < MaxLogs
                  /\ edit_logs' =
                        Append(edit_logs,
                               edit_log(session_state[s], "DELETE",
                                        row["Telecaller"]))
                  /\ local_reports' = delete_local(local_reports, idx).list
                  /\ result' = [op |-> "delete_report", session |-> s,
                                index |-> idx,
                                out |-> delete_local(local_reports, idx).ok]
             ELSE /\ result' = NoResult
                  /\ UNCHANGED <<edit_logs, local_reports>>
    /\ UNCHANGED <<reports, header, now, use_google_sheets, users,
                   session_state>>

\* add_report_page: 'Cancel Editing'
CancelEditing(s) ==
    /\ session_state[s].authenticated
    /\ session_state[s].edit_mode
    /\ session_state' = [session_state EXCEPT ![s] =
                           [@ EXCEPT !.edit_mode = FALSE,
                                     !.editing_report = NoIndex]]
    /\ result' = NoResult
    /\ UNCHANGED <<reports, header, now, use_google_sheets, local_reports,
                   edit_logs, users>>

\* add_report_page: 'Save Report' outside edit mode.  add_report appends
\* to the worksheet when connected and falls back to the local list when
\* append_row raises (sheet_ok false)
SaveReport(s, form, sheet_ok) ==
    /\ session_state[s].authenticated
    /\ ~session_state[s].edit_mode
    /\ IF ValidationErrors(form) # {}
       THEN /\ result' = NoResult
            /\ UNCHANGED <<reports, local_reports>>
       ELSE IF use_google_sheets /\ sheet_ok
       THEN /\ Len(reports) < MaxReports
            /\ reports' = Append(reports,
                                 sheet_row(stamped(report_data(form), now)))
            /\ result' = NoResult
            /\ UNCHANGED local_reports
       ELSE /\ Len(local_reports) < MaxLocal
            /\ local_reports' = Append(local_reports,
                                       stamped(report_data(form), now))
            /\ result' = NoResult
            /\ UNCHANGED reports
    /\ UNCHANGED <<header, now, use_google_sheets, edit_logs, users,
                   session_state>>

\* add_report_page: 'Update Report' in edit mode.  The page loads
\* reports.iloc[editing_report] first and leaves edit mode when there is
\* no such row; a valid form is logged and handed to update_report, which
\* works on the local list whether or not the spreadsheet is connected
UpdateReport(s, form) ==
    /\ session_state[s].authenticated
    /\ session_state[s].edit_mode
    /\ LET report_idx == session_state[s].editing_report
           updated == update_local(local_reports, report_idx,
                                   stamped(report_data(form), now))
       IN  IF ~(report_idx < Len(get_all_reports(Stored).rows))
           THEN /\ session_state' = [session_state EXCEPT ![s] =
                                       [@ EXCEPT !.edit_mode = FALSE,
                                                 !.editing_report = NoIndex]]
                /\ result' = NoResult
                /\ UNCHANGED <<local_reports, edit_logs>>
           ELSE IF ValidationErrors(form) # {}
           THEN /\ result' = NoResult
                /\ UNCHANGED <<local_reports, edit_logs, session_state>>
           ELSE /\ Len(edit_logs) < MaxLogs
                /\ edit_logs' = Append(edit_logs,
                                       edit_log(session_state[s], "EDIT",
                                                form.telecaller))
                /\ local_reports' = updated.list
                /\ result' = [op |-> "update_report", session |-> s,
                              out |-> updated.ok]
                /\ session_state' =
                      IF updated.ok
                      THEN [session_state EXCEPT ![s] =
                              [@ EXCEPT !.edit_mode = FALSE,
                                        !.editing_report = NoIndex]]
                      ELSE session_state
    /\ UNCHANGED <<reports, header, now, use_google_sheets, users>>

NextApp ==
    \/ \E s \in Sessions, l \in Logins : Login(s, l[1], l[2])
    \/ \E s \in Sessions : Logout(s)
    \/ \E s \in Sessions, idx \in 0..MaxReports : EditSelected(s, idx)
    \/ \E s \in Sessions, idx \in 0..MaxReports : DeleteSelected(s, idx)
    \/ \E s \in Sessions : CancelEditing(s)
    \/ \E s \in Sessions, form \in NewForms(DateOf(now)), ok \in BOOLEAN :
          SaveReport(s, form, ok)
    \/ \E s \in Sessions, form \in EditForms(DateOf(now)) :
          UpdateReport(s, form)

\* one user at the report form
NextForm ==
    \/ \E l \in Logins : Login(1, l[1], l[2])
    \/ Logout(1)
    \/ \E idx \in 0..MaxReports : EditSelected(1, idx)
    \/ CancelEditing(1)
    \/ \E form \in Forms(DateOf(now)), ok \in BOOLEAN : SaveReport(1, form, ok)
    \/ \E form \in Forms(DateOf(now)) : UpdateReport(1, form)

\* one user at the Daily Reports page of an application that already
\* holds reports
InitDaily ==
    /\ reports \in ReadSheets
    /\ header = ReportHeaders
    /\ now = FirstTick
    /\ result = NoResult
    /\ use_google_sheets \in BOOLEAN
    /\ local_reports \in DailyLocals
    /\ edit_logs = <<>>
    /\ users = default_users
    /\ session_state = [s \in Sessions |-> NewSession]

NextDaily ==
    \/ \E l \in Logins : Login(1, l[1], l[2])
    \/ Logout(1)
    \/ \E idx \in 0..MaxReports : EditSelected(1, idx)
    \/ \E idx \in 0..MaxReports : DeleteSelected(1, idx)
    \/ CancelEditing(1)
    \/ \E form \in EditForms(DateOf(now)) : UpdateReport(1, form)

\* the user store as load_users finds it: the default users, one of whom
\* may have been switched off in the storage
InitUsers ==
    /\ reports = <<>>
    /\ header = SheetHeaders
    /\ now = FirstTick
    /\ result = NoResult
    /\ use_google_sheets \in BOOLEAN
    /\ local_reports = <<>>
    /\ edit_logs = <<>>
    /\ users \in {default_users,
                  [default_users EXCEPT !["shiru"].is_active = FALSE]}
    /\ session_state = [s \in Sessions |-> NewSession]

\* AuthManager.authenticate(username, password)
Authenticate(username, password) ==
    /\ result' = [op |-> "authenticate", username |-> username,
                  password |-> password,
                  out |-> authenticate(username, password)]
    /\ UNCHANGED <<reports, header, now, appVars>>

\* AuthManager.add_user(username, user_data), save_users included
AddUser(username, user_data) ==
    /\ users' = add_user(username, user_data).users
    /\ result' = [op |-> "add_user", username |-> username,
                  success |-> add_user(username, user_data).success,
                  message |-> add_user(username, user_data).message]
    /\ UNCHANGED <<reports, header, now, use_google_sheets, local_reports,
                   edit_logs, session_state>>

\* AuthManager.delete_user(username), save_users included
DeleteUser(username) ==
    /\ users' = delete_user(username).users
    /\ result' = [op |-> "delete_user", username |-> username,
                  success |-> delete_user(username).success,
                  message |-> delete_user(username).message]
    /\ UNCHANGED <<reports, header, now, use_google_sheets, local_reports,
                   edit_logs, session_state>>

\* AuthManager.update_permissions(username, permissions), save_users
\* included
UpdatePermissions(username, permissions) ==
    /\ users' = update_permissions(username, permissions).users
    /\ result' = [op |-> "update_permissions", username |-> username,
                  success |-> update_permissions(username, permissions).success,
                  message |-> update_permissions(username, permissions).message]
    /\ UNCHANGED <<reports, header, now, use_google_sheets, local_reports,
                   edit_logs, session_state>>

\* dashboard_page with one of the range buttons selected
DashboardPage(s, selected_range) ==
    /\ session_state[s].authenticated
    /\ result' = [op |-> "dashboard_page", session |-> s,
                  selected_range |-> selected_range,
                  out |-> dashboard_page(session_state[s], Stored, now,
                                         selected_range)]
    /\ UNCHANGED <<reports, header, now, appVars>>

\* system_status_page
SystemStatusPage(s) ==
    /\ session_state[s].authenticated
    /\ result' = [op |-> "system_status_page", session |-> s,
                  out |-> system_status_page(session_state[s], Stored,
                                             use_google_sheets,
                                             Cardinality(DOMAIN users),
                                             Len(edit_logs))]
    /\ UNCHANGED <<reports, header, now, appVars>>

\* one user looking at the pages of an application that holds reports
NextPages ==
    \/ \E l \in Logins : Login(1, l[1], l[2])
    \/ Logout(1)
    \/ \E tr \in TimeRanges : DashboardPage(1, tr)
    \/ SystemStatusPage(1)

\* user_management_page is in the navigation of the sessions that may
\* manage users
OnUserManagement(s) ==
    /\ session_state[s].authenticated
    /\ can_manage_users(session_state[s])

\* user_management_page, 'View Users': the delete button of a listed user,
\* which 'admin' does not have
DeleteUserButton(s, username) ==
    /\ OnUserManagement(s)
    /\ username \in DOMAIN users \ {"admin"}
    /\ users' = delete_user(username).users
    /\ result' = [op |-> "delete_user", username |-> username,
                  success |-> delete_user(username).success,
                  message |-> delete_user(username).message]
    /\ UNCHANGED <<reports, header, now, use_google_sheets, local_reports,
                   edit_logs, session_state>>

\* user_management_page, 'Add User': a form that passes the checks
AddUserForm(s, username, user_data) ==
    /\ OnUserManagement(s)
    /\ users' = add_user(username, user_data).users
    /\ result' = [op |-> "add_user", username |-> username,
                  success |-> add_user(username, user_data).success,
                  message |-> add_user(username, user_data).message]
    /\ UNCHANGED <<reports, header, now, use_google_sheets, local_reports,
                   edit_logs, session_state>>

\* user_management_page, 'Manage Permissions': 'Save Permissions' for a
\* user of the select box, which leaves out 'admin'.  The session that
\* saves takes the permissions over when they are its own user's
SavePermissions(s, selected_user, permissions) ==
    /\ OnUserManagement(s)
    /\ selected_user \in DOMAIN users \ {"admin"}
    /\ users' = update_permissions(selected_user, permissions).users
    /\ session_state' =
          IF /\ update_permissions(selected_user, permissions).success
             /\ selected_user = session_state[s].user
          THEN [session_state EXCEPT ![s].user_permissions = permissions]
          ELSE session_state
    /\ result' = [op |-> "update_permissions", username |-> selected_user,
                  success |-> update_permissions(selected_user, permissions).success,
                  message |-> update_permissions(selected_user, permissions).message]
    /\ UNCHANGED <<reports, header, now, use_google_sheets, local_reports,
                   edit_logs>>

\* two sessions, one of which manages the users
NextManage ==
    \/ \E s \in Sessions, l \in Logins : Login(s, l[1], l[2])
    \/ \E s \in Sessions : Logout(s)
    \/ \E s \in Sessions, u \in {"prakriti", "asha"} : DeleteUserButton(s, u)
    \/ \E s \in Sessions, d \in NewUsers : AddUserForm(s, "asha", d)
    \/ \E s \in Sessions, ps \in PermissionSets :
          SavePermissions(s, "prakriti", ps)

NextUsers ==
    \/ \E u \in UserNames, pw \in Passwords : Authenticate(u, pw)
    \/ \E u \in {"admin", "asha"}, d \in NewUsers : AddUser(u, d)
    \/ \E u \in UserNames \ {"shiru"} : DeleteUser(u)
    \/ \E u \in {"prakriti", "asha"}, ps \in PermissionSets :
          UpdatePermissions(u, ps)

NextReads ==
    \/ Reads
    \/ AllReports

Spec == Init /\ [][Next]_vars

SpecReads == InitReads /\ [][NextReads]_vars

SpecUsers == InitUsers /\ [][NextUsers]_vars

SpecApp == InitSheet /\ [][NextApp]_vars

SpecPages == InitReads /\ [][NextPages]_vars

SpecManage == InitSheet /\ [][NextManage]_vars

SpecDaily == InitDaily /\ [][NextDaily]_vars

SpecForm == InitSheet /\ [][NextForm]_vars

SpecCols == InitCols /\ [][NextCols]_vars

SpecCells == Init /\ [][NextCells]_vars

SpecFilter == Init /\ [][NextFilter]_vars

----------------------------------------------------------------------------
(* What the claims are stated over: the worksheet rows themselves *)

\* the positions of the rows whose date parses (the records of the snapshot)
ValidIdx == {i \in DOMAIN reports : reports[i]["Date"].ok}

DayOfIdx(i) == reports[i]["Date"].ts \div TicksPerDay

TcMatch(i, tc) == tc \in {None, ""} \/ reports[i]["Telecaller"] = tc

\* the count a numeric cell stands for: 0 when it is not a count
CellValue(cell) == IF cell \in Nat THEN cell ELSE 0

RECURSIVE SumOver(_, _)
SumOver(S, col) ==
    IF S = {} THEN 0
    ELSE LET i == CHOOSE j \in S : TRUE
         IN  CellValue(reports[i][col]) + SumOver(S \ {i}, col)

RECURSIVE SumSet(_, _)
SumSet(S, col) ==
    IF S = {} THEN 0
    ELSE LET x == CHOOSE y \in S : TRUE
         IN  x[col] + SumSet(S \ {x}, col)

\* the date window of a summary bucket: calendar days, today included
InBucket(day, today, time_range) ==
    CASE time_range = "today" -> day = today
      [] time_range = "yesterday" -> day = today - 1
      [] time_range = "week" -> today - (WeekDays - 1) <= day /\ day <= today
      [] time_range = "month" -> today - (MonthDays - 1) <= day /\ day <= today
      [] OTHER -> TRUE

Selected(time_range, tc) ==
    {i \in ValidIdx : TcMatch(i, tc) /\ InBucket(DayOfIdx(i), DateOf(now), time_range)}

AllZero(stats) == \A f \in DOMAIN stats : stats[f] = 0

IsStats == result.op = "get_dashboard_stats"
IsWeekly == result.op = "get_weekly_summary"
IsTrend == result.op = "get_performance_trend"
IsRollup == result.op = "get_telecaller_performance"
IsVideo == result.op = "get_video_activities"
IsCountry == result.op = "get_country_distribution"
IsListing == result.op = "get_all_reports"

\* term occurs in text, character for character
SubstringOf(term, text) ==
    \E k \in 1..(Len(text) + 1) :
        /\ k + Len(term) - 1 <= Len(text)
        /\ \A j \in DOMAIN term : term[j] = text[k + j - 1]

----------------------------------------------------------------------------
(* C1 - C10 *)

\* C1: on a non-empty worksheet whose header lacks a column, every
\* aggregation operation returns (never raises), and what it returns for
\* the absent column is its empty or zero value.
C1_MissingColumnTolerated ==
    (result.op # "none" /\ reports # <<>>) =>
        /\ ~result.out.raised
        /\ IsStats =>
             /\ "Total Calls" \notin header => result.out.val.total_calls = 0
             /\ "New Data" \notin header => result.out.val.new_data = 0
             /\ "CRM Data" \notin header => result.out.val.crm_data = 0
             /\ "Fair Data" \notin header => result.out.val.fair_data = 0
             /\ "Visited Students" \notin header
                  => result.out.val.visited_students = 0
             /\ "Video" \notin header => result.out.val.video_activities = 0
             /\ "Country Data" \notin header
                  => result.out.val.country_data_count = 0
        /\ (IsWeekly \/ IsTrend) /\ "Date" \notin header
             => result.out.val = <<>>
        /\ IsRollup /\ "Telecaller" \notin header => result.out.val = {}
        /\ IsVideo /\ ("Date" \notin header \/ "Video" \notin header)
             => result.out.val = <<>>
        /\ IsCountry /\ "Country Data" \notin header
             => DOMAIN result.out.val = {}

\* C2 as stated: both rates of the summary lie in [0, 100] and are 0 when
\* the filtered total_calls is 0.
C2_RatesWithin0And100 ==
    IsStats =>
        LET st == result.out.val
        IN  /\ st.conversion_rate \in 0..1000
            /\ st.crm_completion_rate \in 0..1000
            /\ st.total_calls = 0
                 => st.conversion_rate = 0 /\ st.crm_completion_rate = 0

\* C2 amended: both rates are at least 0 and are 0 when the filtered
\* total_calls is 0; a rate is at most 100 whenever its numerator (new_data,
\* crm_data) does not exceed the filtered total_calls.
C2_RatesBounded ==
    IsStats =>
        LET st == result.out.val
        IN  /\ st.conversion_rate >= 0
            /\ st.crm_completion_rate >= 0
            /\ st.total_calls = 0
                 => st.conversion_rate = 0 /\ st.crm_completion_rate = 0
            /\ st.new_data <= st.total_calls => st.conversion_rate <= 1000
            /\ st.crm_data <= st.total_calls => st.crm_completion_rate <= 1000

C2_Witness ==
    /\ IsStats
    /\ result.out.val.total_calls > 0
    /\ result.out.val.new_data > 0
    /\ result.out.val.new_data < result.out.val.total_calls
    /\ result.out.val.conversion_rate \in 1..999

\* C3: with no record in the snapshot every operation returns its empty
\* output without raising (all-zero summary, empty trend, weekly summary and
\* video listing, empty rollup, empty country mapping), and the summary is
\* all-zero as well when the snapshot has records but the bucket and
\* telecaller filter keeps none of them.
C3_EmptyDefaults ==
    /\ (result.op # "none" /\ ValidIdx = {}) =>
         /\ ~result.out.raised
         /\ IsStats => AllZero(result.out.val)
         /\ (IsWeekly \/ IsTrend \/ IsVideo) => result.out.val = <<>>
         /\ IsRollup => result.out.val = {}
         /\ IsCountry => DOMAIN result.out.val = {}
    /\ (IsStats /\ ValidIdx # {}
        /\ ~ \E i \in ValidIdx :
               /\ TcMatch(i, result.telecaller)
               /\ Len(BucketFilter(DataFrame(<<[Date |-> reports[i]["Date"].ts]>>),
                                   DateOf(now), result.time_range).rows) = 1)
         => ~result.out.raised /\ AllZero(result.out.val)

C3_Witness ==
    /\ IsStats
    /\ ValidIdx # {}
    /\ result.time_range = "yesterday"
    /\ AllZero(result.out.val)

\* C4: the sums and counts of the summary are taken over exactly the
\* records in the bucket's date window that match the telecaller filter.
C4_StatsOverBucketWindow ==
    IsStats =>
        LET st == result.out.val
            S == Selected(result.time_range, result.telecaller)
        IN  /\ st.total_calls = SumOver(S, "Total Calls")
            /\ st.new_data = SumOver(S, "New Data")
            /\ st.crm_data = SumOver(S, "CRM Data")
            /\ st.fair_data = SumOver(S, "Fair Data")
            /\ st.visited_students = SumOver(S, "Visited Students")
            /\ st.video_activities
                 = Cardinality({i \in S : reports[i]["Video"] = "Yes"})
            /\ st.country_data_count
                 = Cardinality({i \in S : reports[i]["Country Data"] # ""})

\* C5: the rows a bucket keeps are exactly the records dated in its window:
\* today, the previous day, the last 7 (30) days with today, or all.
C5_BucketWindows ==
    IsStats =>
        LET kept == BucketFilter(get_all_reports(reports), DateOf(now),
                                 result.time_range).rows
        IN  /\ \A k \in DOMAIN kept :
                 InBucket(DateOf(kept[k]["Date"]), DateOf(now), result.time_range)
            /\ Len(kept) = Cardinality(Selected(result.time_range, None))

\* C6: the rollup's 'Total Calls' add up to the total_calls of all records
\* and there is exactly one row for every telecaller that has a record.
C6_RollupTotals ==
    (IsRollup /\ ~result.out.raised) =>
        LET rows == result.out.val
        IN  /\ SumSet(rows, "Total Calls") = SumOver(ValidIdx, "Total Calls")
            /\ \A t \in {reports[i]["Telecaller"] : i \in ValidIdx} :
                 Cardinality({r \in rows : r["Telecaller"] = t}) = 1
            /\ \A r \in rows :
                 \E i \in ValidIdx : reports[i]["Telecaller"] = r["Telecaller"]

C6_Witness ==
    /\ IsRollup
    /\ ~result.out.raised
    /\ Cardinality(ValidIdx) = 2
    /\ Cardinality(result.out.val) = 1
    /\ SumSet(result.out.val, "Total Calls") = 3

\* C7: every rollup row's conversion rate is new_data / total_calls * 100
\* of its group, and is the number 0 when the group's total_calls is 0.
C7_RollupRateZeroWithoutCalls ==
    (IsRollup /\ ~result.out.raised) =>
        \A r \in result.out.val :
            /\ r["Conversion Rate"].kind = "num"
            /\ r["Total Calls"] = 0 => r["Conversion Rate"].tenths = 0
            /\ r["Total Calls"] > 0
                 => r["Conversion Rate"].tenths
                      = RoundHalfEven(1000 * r["New Data"], r["Total Calls"])

\* C8: the trend and the weekly summary have strictly ascending dates (so
\* at most one row per calendar date) and a row only for a date on which a
\* record of the window matching the telecaller filter exists.
C8_TrendRowsSparseAscending ==
    ((IsTrend \/ IsWeekly) /\ ~result.out.raised) =>
        LET rows == result.out.val
            days == IF IsTrend THEN result.days ELSE 7
        IN  /\ \A j, k \in DOMAIN rows :
                 j < k => rows[j]["Date"] < rows[k]["Date"]
            /\ \A k \in DOMAIN rows :
                 \E i \in ValidIdx :
                     /\ DayOfIdx(i) = rows[k]["Date"]
                     /\ TcMatch(i, result.telecaller)
                     /\ DateOf(now) - days <= DayOfIdx(i)
                     /\ DayOfIdx(i) <= DateOf(now)

C8_Witness ==
    /\ IsTrend
    /\ ~result.out.raised
    /\ Len(result.out.val) = 2

\* C9: the trend has a row for exactly the calendar dates of the records
\* dated from `days` days before today up to today that match the
\* telecaller filter, each row carrying the sums over those records.
C9_TrendWindow ==
    (IsTrend /\ ~result.out.raised) =>
        LET rows == result.out.val
            Inc == {i \in ValidIdx :
                      /\ TcMatch(i, result.telecaller)
                      /\ DateOf(now) - result.days <= DayOfIdx(i)
                      /\ DayOfIdx(i) <= DateOf(now)}
            OnDay(d) == {i \in Inc : DayOfIdx(i) = d}
        IN  /\ {rows[k]["Date"] : k \in DOMAIN rows} = {DayOfIdx(i) : i \in Inc}
            /\ \A k \in DOMAIN rows :
                 /\ rows[k]["Total Calls"]
                      = SumOver(OnDay(rows[k]["Date"]), "Total Calls")
                 /\ rows[k]["New Data"]
                      = SumOver(OnDay(rows[k]["Date"]), "New Data")

\* C10: the weekly summary is the trend of 7 days, for the same worksheet,
\* instant and telecaller filter.
C10_WeeklyIsTrendOf7 ==
    /\ IsWeekly
         => result.out = get_performance_trend(reports, now, 7, result.telecaller)
    /\ (IsTrend /\ result.days = 7)
         => result.out = get_weekly_summary(reports, now, result.telecaller)

C10_Witness ==
    /\ IsWeekly
    /\ ~result.out.raised
    /\ Len(result.out.val) = 2

----------------------------------------------------------------------------
(* C11 - C20 *)

\* C11: every row of a trend or weekly series carries the fields date,
\* total_calls and new_data, the columns the dashboard's charts read.
C11_SeriesRowsCarryChartFields ==
    ((IsTrend \/ IsWeekly) /\ ~result.out.raised) =>
        \A k \in DOMAIN result.out.val :
            ChartFields \subseteq DOMAIN result.out.val[k]

\* C12: the video listing holds exactly the records with video 'Yes' dated
\* from `days` days before today up to today that match the telecaller
\* filter, each as the full record, latest date first; no row has a video
\* value other than 'Yes'.
C12_VideoListing ==
    (IsVideo /\ ~result.out.raised) =>
        LET rows == result.out.val
            Inc == {i \in ValidIdx :
                      /\ reports[i]["Video"] = "Yes"
                      /\ TcMatch(i, result.telecaller)
                      /\ DateOf(now) - result.days <= DayOfIdx(i)
                      /\ DayOfIdx(i) <= DateOf(now)}
            IsRecord(row, i) ==
                /\ row["Date"] = reports[i]["Date"].ts
                /\ \A c \in header \ {"Date"} : row[c] = reports[i][c]
        IN  /\ Len(rows) = Cardinality(Inc)
            /\ \A k \in DOMAIN rows : \E i \in Inc : IsRecord(rows[k], i)
            /\ \A i \in Inc : \E k \in DOMAIN rows : IsRecord(rows[k], i)
            /\ \A j, k \in DOMAIN rows :
                 j < k => rows[j]["Date"] >= rows[k]["Date"]
            /\ \A k \in DOMAIN rows : rows[k]["Video"] = "Yes"

\* C13: the country distribution has a key for exactly the non-empty
\* country values of the records matching the telecaller filter, and each
\* count is the number of those records with that value (so at least 1);
\* records with an empty country add nothing, and the mapping is empty
\* when no matching record has a country.
C13_CountryCounts ==
    (IsCountry /\ ~result.out.raised) =>
        LET m == result.out.val
            M == {i \in ValidIdx :
                    /\ TcMatch(i, result.telecaller)
                    /\ reports[i]["Country Data"] # ""}
        IN  /\ DOMAIN m = {reports[i]["Country Data"] : i \in M}
            /\ "" \notin DOMAIN m
            /\ \A c \in DOMAIN m :
                 /\ m[c] >= 1
                 /\ m[c] = Cardinality({i \in M : reports[i]["Country Data"] = c})
            /\ M = {} => DOMAIN m = {}

C13_Witness ==
    /\ IsCountry
    /\ ~result.out.raised
    /\ Cardinality(ValidIdx) = 2
    /\ \E i \in ValidIdx :
         TcMatch(i, result.telecaller) /\ reports[i]["Country Data"] = ""
    /\ DOMAIN result.out.val = {"India"}
    /\ result.out.val["India"] = 1

\* C14: on a worksheet with malformed cells no operation raises; a record
\* with a malformed numeric cell counts 0 in that field and keeps its other
\* fields, and a record with an unparseable date is dropped: the summary of
\* all time sums, and the rollup groups, exactly the records with a
\* parseable date.
C14_MalformedCellsNeutral ==
    result.op # "none" =>
        /\ ~result.out.raised
        /\ (IsStats /\ result.time_range = "all") =>
             LET st == result.out.val
                 S == {i \in ValidIdx : TcMatch(i, result.telecaller)}
             IN  /\ st.total_calls = SumOver(S, "Total Calls")
                 /\ st.new_data = SumOver(S, "New Data")
                 /\ st.crm_data = SumOver(S, "CRM Data")
                 /\ st.fair_data = SumOver(S, "Fair Data")
                 /\ st.visited_students = SumOver(S, "Visited Students")
        /\ IsRollup =>
             {r["Telecaller"] : r \in result.out.val}
               = {reports[i]["Telecaller"] : i \in ValidIdx}

\* C15: the filtered listing holds exactly the records that pass every
\* filter present: date from start_date on, date up to end_date, telecaller
\* equal to the one given unless 'All', video equal to the one given unless
\* 'All', and some field whose text holds the search term, letter case
\* aside; a filter left out removes nothing.
C15_ListingIsConjunctionOfFilters ==
    IsListing =>
        LET f == result.filters
            rows == result.out.val
            Holds(i) ==
                \E c \in header :
                    SubstringOf(lower(f.search),
                                lower(astype_str(c, IF c = "Date"
                                                    THEN reports[i][c].ts
                                                    ELSE reports[i][c])))
            Sel == {i \in ValidIdx :
                      /\ f.start_date # NoDate => DayOfIdx(i) >= f.start_date
                      /\ f.end_date # NoDate => DayOfIdx(i) <= f.end_date
                      /\ f.telecaller \notin {None, "All"}
                           => reports[i]["Telecaller"] = f.telecaller
                      /\ f.video \notin {None, "All"}
                           => reports[i]["Video"] = f.video
                      /\ f.search # <<>> => Holds(i)}
            IsRecord(row, i) ==
                /\ row["Date"] = reports[i]["Date"].ts
                /\ \A c \in header \ {"Date"} : row[c] = reports[i][c]
        IN  /\ Len(rows) = Cardinality(Sel)
            /\ \A k \in DOMAIN rows : \E i \in Sel : IsRecord(rows[k], i)
            /\ \A i \in Sel : \E k \in DOMAIN rows : IsRecord(rows[k], i)

\* C17: avg_calls_per_day and avg_new_data_per_day are total_calls and
\* new_data of the filtered set divided by the number of its distinct
\* dates (to one decimal); that number is at least 1 when the set is not
\* empty, and both averages are 0 when it is.
C17_AveragesPerDistinctDate ==
    (IsStats /\ ~result.out.raised) =>
        LET st == result.out.val
            S == {i \in ValidIdx :
                    /\ TcMatch(i, result.telecaller)
                    /\ Len(BucketFilter(DataFrame(<<[Date |-> reports[i]["Date"].ts]>>),
                                        DateOf(now), result.time_range).rows) = 1}
            n == Cardinality({DayOfIdx(i) : i \in S})
        IN  /\ S # {} =>
                 /\ n >= 1
                 /\ st.avg_calls_per_day = Round1(SumOver(S, "Total Calls"), n)
                 /\ st.avg_new_data_per_day = Round1(SumOver(S, "New Data"), n)
            /\ S = {} =>
                 st.avg_calls_per_day = 0 /\ st.avg_new_data_per_day = 0

C17_Witness ==
    /\ IsStats
    /\ ~result.out.raised
    /\ Cardinality({DayOfIdx(i) : i \in ValidIdx}) = 2
    /\ result.out.val.total_calls = 3
    /\ result.out.val.avg_calls_per_day = 15

\* C16: no aggregation or read operation (get_all_reports,
\* get_dashboard_stats, get_weekly_summary, get_performance_trend,
\* get_telecaller_performance, get_video_activities,
\* get_country_distribution) changes the stored reports, the edit log or
\* the user store: every such call leaves the worksheet, the local list,
\* the edit log and the users as they were, so any sequence of calls does.
\* A step that leaves the result of one of these operations is a call of it
C16_ReadsChangeNoStore ==
    [][result'.op \in {"get_all_reports", "get_dashboard_stats",
                       "get_weekly_summary", "get_performance_trend",
                       "get_telecaller_performance", "get_video_activities",
                       "get_country_distribution"} =>
         UNCHANGED <<reports, local_reports, edit_logs, users>>]_vars

\* a read has returned over stores that all hold something
C16_Witness ==
    /\ result.op = "get_telecaller_performance"
    /\ reports # <<>>
    /\ local_reports # <<>>
    /\ edit_logs # <<>>

\* the video rule over the records of one store, whose video fields are
\* kept under the keys v and d
VideoRule(records, v, d) ==
    \A i \in DOMAIN records :
        /\ records[i][v] = "Yes" => strip(records[i][d]) # ""
        /\ records[i][v] = "No" => records[i][d] = ""

\* C18: every report stored by submitting the report form (add or edit)
\* with video 'Yes' has non-blank video details and every report stored
\* with video 'No' has empty video details, in the worksheet and in the
\* local list; a submission with video 'Yes' and blank details is rejected
\* and stores nothing, neither a report nor an edit-log entry
C18_VideoDetailsAtTheForm ==
    [][/\ VideoRule(reports', "Video", "Video Details")
       /\ VideoRule(local_reports', "video", "video_details")
       /\ \A form \in Forms(DateOf(now)) :
             /\ form.video = "Yes"
             /\ strip(form.video_details) = ""
             /\ \/ \E ok \in BOOLEAN : SaveReport(1, form, ok)
                \/ UpdateReport(1, form)
             => UNCHANGED <<reports, local_reports, edit_logs>>]_vars

\* an add has stored a report with video 'Yes' in the worksheet and an
\* edit has just stored one in the local list
C18_Witness ==
    /\ result.op = "update_report"
    /\ result.out
    /\ \E i \in DOMAIN reports :
          reports[i]["Video"] = "Yes" /\ reports[i]["Video Details"] = "clip"
    /\ \E i \in DOMAIN local_reports :
          local_reports[i].video = "Yes" /\ local_reports[i].video_details = "clip"

\* the list without the entry at position i, counted from 0
Without(list, i) ==
    [k \in 1..(Len(list) - 1) |-> IF k <= i THEN list[k] ELSE list[k + 1]]

\* C19: update_report(i, data) and delete_report(i) act on whichever
\* record occupies position i of the stored list at the moment of the
\* call, with no check of record identity.  An update succeeds exactly
\* when position i exists and then replaces the record there and no
\* other; a delete succeeds exactly when position i exists and then
\* removes the record there and no other.  So when a session has selected
\* the report at index i and another session deletes at a lower index j,
\* position i afterwards holds the record that stood at i + 1, or no
\* record at all, and that is what the first session's update meets
C19_PositionalUpdateAndDelete ==
    [][/\ result'.op = "update_report" =>
            LET i == session_state[result'.session].editing_report
            IN  /\ result'.out = (0 <= i /\ i < Len(local_reports))
                /\ Len(local_reports') = Len(local_reports)
                /\ \A k \in DOMAIN local_reports :
                      k # i + 1 => local_reports'[k] = local_reports[k]
                /\ result'.out =>
                      \E form \in EditForms(DateOf(now)) :
                          local_reports'[i + 1] =
                              stamped(report_data(form), now)
                /\ ~result'.out => local_reports' = local_reports
       /\ result'.op = "delete_report" =>
            LET j == result'.index
            IN  /\ result'.out = (0 <= j /\ j < Len(local_reports))
                /\ result'.out => local_reports' = Without(local_reports, j)
                /\ ~result'.out => local_reports' = local_reports
                /\ \A s \in Sessions :
                      LET i == session_state[s].editing_report
                      IN  /\ session_state[s].edit_mode
                          /\ j < i
                          /\ result'.out
                          => IF i < Len(local_reports')
                             THEN local_reports'[i + 1] = local_reports[i + 2]
                             ELSE ~update_local(local_reports', i,
                                                local_reports[1]).ok]_vars

\* one session has the report at index 1 open and the other has just
\* deleted at index 0, which leaves one record in the list: the update of
\* the first session will find no record at index 1
C19_Witness ==
    /\ result.op = "delete_report"
    /\ result.out
    /\ result.index = 0
    /\ Len(local_reports) = 1
    /\ \E s \in Sessions \ {result.session} :
          /\ session_state[s].edit_mode
          /\ session_state[s].editing_report = 1

\* the record a form leaves in the store the reports are read from
Written(form) ==
    IF use_google_sheets THEN sheet_row(stamped(report_data(form), now))
    ELSE stamped(report_data(form), now)

\* C20: the edit flow has no conflict detection: when two sessions have
\* opened the same report for editing and one of them submits, its
\* update_report call returns success and the stored record the two
\* opened then carries the data of that writer, whatever the other
\* session wrote before
C20_LastWriterWins ==
    [][\A s \in Sessions :
         LET i == session_state[s].editing_report
         IN  /\ result'.op = "update_report"
             /\ result'.session = s
             /\ \E t \in Sessions \ {s} :
                   /\ session_state[t].edit_mode
                   /\ session_state[t].editing_report = i
             => /\ result'.out
                /\ i < Len(Stored')
                /\ \E form \in EditForms(DateOf(now)) :
                      Stored'[i + 1] = Written(form)]_vars


----------------------------------------------------------------------------
(* C21 - C30 *)

\* C30: for the same snapshot, instant and telecaller filter, the records
\* get_dashboard_stats counts for 'week' are the records get_weekly_summary
\* covers, so the total_calls and new_data of the 'week' statistics are the
\* sums of those columns over the rows of the weekly summary.
C30_WeekStatsAreWeeklySummary ==
    (IsStats /\ result.time_range = "week" /\ ~result.out.raised) =>
        LET weekly == get_weekly_summary(reports, now, result.telecaller)
        IN  ~weekly.raised =>
              /\ result.out.val.total_calls = SumRows(weekly.val, "Total Calls")
              /\ result.out.val.new_data = SumRows(weekly.val, "New Data")


\* C23: authenticate(username, password) returns success with the user's
\* record if and only if the username exists in the user store, that
\* account's is_active is true and the SHA-256 hash of the password equals
\* the stored hash; in every other case it returns (False, None); and it
\* never changes the user store.
C23_AuthenticateExactly ==
    [][result'.op = "authenticate" =>
         LET u == result'.username
             accepted == /\ u \in DOMAIN users
                         /\ users[u].is_active
                         /\ hash_password(result'.password) = users[u].password
         IN  /\ result'.out.success = accepted
             /\ accepted => result'.out = [success |-> TRUE,
                                           user_data |-> users[u]]
             /\ ~accepted => result'.out = [success |-> FALSE]
             /\ users' = users]_vars

\* the right password of an account that is switched off has been refused
C23_Witness ==
    /\ result.op = "authenticate"
    /\ result.username \in DOMAIN users
    /\ ~users[result.username].is_active
    /\ hash_password(result.password) = users[result.username].password
    /\ ~result.out.success

\* C27: starting from the default user set, after any sequence of add_user,
\* delete_user and update_permissions calls the user 'admin' still exists:
\* delete_user('admin') returns failure and leaves the store unchanged,
\* add_user with an existing username returns failure and leaves the store
\* unchanged, and delete_user or update_permissions on an unknown username
\* returns 'User not found' and leaves the store unchanged.
C27_AdminAlwaysExists ==
    [][/\ "admin" \in DOMAIN users'
       /\ (result'.op = "delete_user" /\ result'.username = "admin")
            => ~result'.success /\ users' = users
       /\ (result'.op = "add_user" /\ result'.username \in DOMAIN users)
            => ~result'.success /\ users' = users
       /\ (/\ result'.op \in {"delete_user", "update_permissions"}
           /\ result'.username \notin DOMAIN users)
            => /\ ~result'.success
               /\ result'.message = "User not found"
               /\ users' = users]_vars

\* a user has been deleted and deleting 'admin' has just been refused
C27_Witness ==
    /\ result.op = "delete_user"
    /\ result.username = "admin"
    /\ ~result.success
    /\ "prakriti" \notin DOMAIN users
    /\ "admin" \in DOMAIN users

\* C29: the edit log holds an EDIT or DELETE entry for a report exactly
\* when that update or delete was applied to the report store: a step in
\* which update_report or delete_report returns False adds no entry, and a
\* step in which it returns True adds one.
C29_LoggedIffApplied ==
    [][result'.op \in {"update_report", "delete_report"} =>
         IF result'.out
         THEN Len(edit_logs') = Len(edit_logs) + 1
         ELSE edit_logs' = edit_logs]_vars

\* C25: in either storage mode, once delete_report has returned True the
\* next get_all_reports no longer lists the deleted record: it returns one
\* row fewer than before the call.
C25_DeleteReachesTheListing ==
    [][(result'.op = "delete_report" /\ result'.out) =>
         Len(get_all_reports(Stored').rows)
           < Len(get_all_reports(Stored).rows)]_vars

\* C28: when a user selects a report on the Daily Reports page and presses
\* edit, the record the edit form loads as the original data is the
\* selected record: the row at position editing_report of the date-sorted
\* reports carries the label the user selected.
C28_FormLoadsSelectedRecord ==
    \A s \in Sessions :
        (/\ session_state[s].edit_mode
         /\ session_state[s].editing_report
               < Len(get_all_reports(Stored).rows))
          => original_data(session_state[s])["index"]
               = session_state[s].editing_report

\* C22: a report is updated through the UI only when the session user is
\* admin, or holds can_edit_all, or holds can_edit_own and the telecaller
\* of the record actually overwritten is the session's telecaller_name; a
\* report is deleted only when the session user is admin or holds
\* can_delete_all; and the report stores and the edit log change in no
\* step of these pages but a permitted update or delete, so a denied
\* attempt leaves them as they were.
C22_ModifiedOnlyWithPermission ==
    [][/\ result'.op = "update_report" =>
            LET ss == session_state[result'.session]
            IN  \/ ss.user_role = "admin"
                \/ ss.user_permissions.can_edit_all
                \/ /\ ss.user_permissions.can_edit_own
                   /\ result'.out =>
                        local_reports[ss.editing_report + 1].telecaller
                          = ss.telecaller_name
       /\ result'.op = "delete_report" =>
            LET ss == session_state[result'.session]
            IN  \/ ss.user_role = "admin"
                \/ ss.user_permissions.can_delete_all
       /\ <<reports, local_reports, edit_logs>>'
            # <<reports, local_reports, edit_logs>>
            => result'.op \in {"update_report", "delete_report"}]_vars

\* an admin session has overwritten a record and its EDIT entry is logged
C22_Witness ==
    /\ result.op = "update_report"
    /\ result.out
    /\ session_state[result.session].user_role = "admin"
    /\ \E i \in DOMAIN edit_logs : edit_logs[i].action = "EDIT"

\* C24: nothing but the login page works for a session whose authenticated
\* is false: such a session changes only by a login that authenticate
\* accepts, which fills it from the user's record; an update or delete is
\* the act of an authenticated session and the stores change only while
\* some session is authenticated; and a session that stops being
\* authenticated is back at its initial values (user, role, name,
\* telecaller_name, permissions and edit-mode state cleared), so it needs
\* a new successful login before it does anything again.
C24_PagesBehindLogin ==
    [][/\ \A s \in Sessions :
            ~session_state[s].authenticated =>
               \/ session_state'[s] = session_state[s]
               \/ \E l \in Logins :
                     /\ authenticate(l[1], l[2]).success
                     /\ session_state'[s] =
                           logged_in(session_state[s], l[1],
                                     authenticate(l[1], l[2]).user_data)
       /\ \A s \in Sessions :
            (session_state[s].authenticated
               /\ ~session_state'[s].authenticated)
              => session_state'[s] = NewSession
       /\ result'.op \in {"update_report", "delete_report"}
            => session_state[result'.session].authenticated
       /\ <<reports, local_reports, edit_logs>>'
            # <<reports, local_reports, edit_logs>>
            => \E s \in Sessions : session_state[s].authenticated]_vars

\* every session is logged out again after one of them has edited or
\* deleted a report
C24_Witness ==
    /\ \A s \in Sessions : session_state[s] = NewSession
    /\ edit_logs # <<>>

\* C26: at every step the permissions an authenticated session acts on
\* are the permissions stored for its user at that moment, and the user of
\* an authenticated session exists in the user store (a deleted user has
\* no session left to act with).
C26_SessionsFollowTheStore ==
    \A s \in Sessions :
        session_state[s].authenticated =>
          /\ session_state[s].user \in DOMAIN users
          /\ session_state[s].user_permissions
               = users[session_state[s].user].permissions

\* the records of a store that belong to a telecaller, whichever way the
\* store spells the key
OwnRecords(ws, telecaller) ==
    SelectSeq(ws, LAMBDA r :
        IF "Telecaller" \in DOMAIN r THEN r["Telecaller"] = telecaller
        ELSE r["telecaller"] = telecaller)

\* C21: for a logged-in user who is not admin and does not hold
\* can_view_all, what the dashboard and the system status page show
\* depends only on the records of the session's telecaller: the page
\* computed from the store is the page computed from the store without
\* the other telecallers' records.
C21_PagesShowOwnRecordsOnly ==
    (/\ result.op \in {"dashboard_page", "system_status_page"}
     /\ ~can_view_all_reports(session_state[result.session]))
      => LET ss == session_state[result.session]
             own == OwnRecords(Stored, ss.telecaller_name)
         IN  IF result.op = "dashboard_page"
             THEN result.out = dashboard_page(ss, own, now,
                                              result.selected_range)
             ELSE result.out = system_status_page(ss, own, use_google_sheets,
                                                  Cardinality(DOMAIN users),
                                                  Len(edit_logs))

====
